---------------------------- MODULE Spec2Model ----------------------------
(***************************************************************************)
(* Candidate deduplication of the Maryland ingest                          *)
(* (src/Maryland/src/deduplication.py, driven by src/Maryland/src/main.py).*)
(*                                                                         *)
(* Python strings are TLA+ strings; TLC evaluates Len, SubSeq, Tail and \o *)
(* on them.  Python's None is the reserved string None below, and an       *)
(* absent election year is the falsy year 0.  Scores are kept exact, in    *)
(* twentieths of a point (Scale), so that 0.6, 0.3, 0.4 and the 0.5 party  *)
(* penalty stay integers.                                                  *)
(***************************************************************************)
EXTENDS Integers, Sequences, FiniteSets, TLC

None == "<None>"

\* a key the candidate dictionary does not have
Missing == "<missing>"

\* src/Maryland/src/config.py:53-55
EXACT_MATCH_THRESHOLD == 100
HIGH_CONFIDENCE_THRESHOLD == 95
REVIEW_THRESHOLD == 85

\* one point of confidence, in model units
Scale == 20

(***************************************************************************)
(* String helpers: str.lower(), str.strip(), the `in` substring test       *)
(***************************************************************************)
UpperCase == "ABCDEFGHIJKLMNOPQRSTUVWXYZ"
LowerCase == "abcdefghijklmnopqrstuvwxyz"

Char(s, i) == SubSeq(s, i, i)

LowerChar(c) ==
    IF \E k \in 1..Len(UpperCase) : Char(UpperCase, k) = c
    THEN Char(LowerCase, CHOOSE k \in 1..Len(UpperCase) : Char(UpperCase, k) = c)
    ELSE c

RECURSIVE lower(_)
lower(s) == IF s = "" THEN "" ELSE LowerChar(Char(s, 1)) \o lower(Tail(s))

IsSpace(c) == c = " "

RECURSIVE lstrip(_)
lstrip(s) == IF s # "" /\ IsSpace(Char(s, 1)) THEN lstrip(Tail(s)) ELSE s

RECURSIVE rstrip(_)
rstrip(s) ==
    IF s # "" /\ IsSpace(Char(s, Len(s)))
    THEN rstrip(SubSeq(s, 1, Len(s) - 1))
    ELSE s

strip(s) == rstrip(lstrip(s))

\* Python: sub in s
Contains(s, sub) ==
    \E i \in 1..(Len(s) - Len(sub) + 1) : SubSeq(s, i, i + Len(sub) - 1) = sub

\* Python truthiness of an optional string
Truthy(s) == s # None /\ s # ""

\* the field values of the records below, as stored
StoredStrings ==
    { "Jonathan Simmons", "JONATHAN SIMMONS", " Jonathan Simmons",
      "Johnathan Simmon", "J Simmons", "Bo Hu",
      "Jonathan", "Johanna", "Johnathan", "J", "Bo",
      "Simmons", "Simmonds", "Simmon", "Hu",
      "J Smith", "John Smith", "John", "Smith", "Jonathan Simms", "Simms",
      "Mayor", " Mayor", "Mayors", "Judge",
      "D", "d ", "R", " ", "state", "local" }

\* s.lower().strip() of each of those strings, computed once
NormalizedOf == [s \in StoredStrings |-> strip(lower(s))] @@ <<>>

\* CandidateMatcher.normalize_string
normalize_string(s) ==
    IF ~Truthy(s) THEN ""
    ELSE IF s \in StoredStrings THEN NormalizedOf[s]
    ELSE strip(lower(s))

(***************************************************************************)
(* fuzz.ratio of fuzzywuzzy: 100 * difflib.SequenceMatcher.ratio(),        *)
(* rounded to the nearest integer (ties to even), behind the guards        *)
(* check_for_none, check_for_equivalence, check_empty_string.              *)
(***************************************************************************)
Min(a, b) == IF a < b THEN a ELSE b
Max(a, b) == IF a > b THEN a ELSE b

\* SequenceMatcher.find_longest_match: the longest common block, the
\* earliest in a and, among those, the earliest in b
find_longest_match(a, b) ==
    LET Blocks(k) == { p \in (1..(Len(a) - k + 1)) \X (1..(Len(b) - k + 1)) :
                          SubSeq(a, p[1], p[1] + k - 1) = SubSeq(b, p[2], p[2] + k - 1) }
        Sizes == { k \in 1..Min(Len(a), Len(b)) : Blocks(k) # {} }
    IN  IF Sizes = {} THEN [i |-> 1, j |-> 1, k |-> 0]
        ELSE LET k  == CHOOSE m \in Sizes : \A n \in Sizes : n <= m
                 i  == CHOOSE m \in { p[1] : p \in Blocks(k) } :
                          \A p \in Blocks(k) : m <= p[1]
                 j  == CHOOSE m \in { p[2] : p \in { q \in Blocks(k) : q[1] = i } } :
                          \A p \in { q \in Blocks(k) : q[1] = i } : m <= p[2]
             IN  [i |-> i, j |-> j, k |-> k]

\* SequenceMatcher.get_matching_blocks, summed: the number of matched characters
RECURSIVE matches(_, _)
\* the block found, plus the matches to its left and to its right
matches_around(a, b, blk) ==
    IF blk.k = 0 THEN 0
    ELSE blk.k
         + matches(SubSeq(a, 1, blk.i - 1), SubSeq(b, 1, blk.j - 1))
         + matches(SubSeq(a, blk.i + blk.k, Len(a)), SubSeq(b, blk.j + blk.k, Len(b)))

matches(a, b) ==
    IF a = "" \/ b = "" THEN 0
    ELSE matches_around(a, b, find_longest_match(a, b))

\* utils.intr(100 * 2.0 * M / T): round half to even
intr(num, den) ==
    LET q == num \div den
        r == num % den
    IN  IF 2 * r < den THEN q
        ELSE IF 2 * r > den THEN q + 1
        ELSE IF q % 2 = 0 THEN q ELSE q + 1

\* difflib's _calculate_ratio is 1.0 for two empty strings
SequenceMatcherRatio(s1, s2) ==
    IF Len(s1) + Len(s2) = 0 THEN 100
    ELSE intr(200 * matches(s1, s2), Len(s1) + Len(s2))

\* the strings of the records below, normalized: the arguments fuzz.ratio gets
ComparedStrings ==
    { "", "jonathan simmons", "johnathan simmon", "j simmons", "bo hu",
      "jonathan", "johanna", "johnathan", "j", "bo",
      "simmons", "simmonds", "simmon", "hu",
      "j smith", "john smith", "john", "smith", "jonathan simms", "simms",
      "mayor", "mayors", "judge" }

\* SequenceMatcher.ratio of each pair of those strings, computed once
RatioOf ==
    [s1 \in ComparedStrings |->
        [s2 \in ComparedStrings |-> SequenceMatcherRatio(s1, s2)] @@ <<>>] @@ <<>>

fuzz_ratio(s1, s2) ==
    IF s1 = None \/ s2 = None THEN 0
    ELSE IF s1 = s2 THEN 100
    ELSE IF Len(s1) = 0 \/ Len(s2) = 0 THEN 0
    ELSE IF s1 \in ComparedStrings /\ s2 \in ComparedStrings THEN RatioOf[s1][s2]
    ELSE SequenceMatcherRatio(s1, s2)

(***************************************************************************)
(* CandidateMatcher: the three strategies and their cascade.               *)
(* A strategy returns None or (existing, score); the existing candidate is *)
(* named by its position in the pool, the score is in 1/Scale points.      *)
(***************************************************************************)
NoResult == [found |-> FALSE, pos |-> 0, score |-> 0]
Result(k, s) == [found |-> TRUE, pos |-> k, score |-> s]

\* match_by_external_id: no persistent external IDs, always None
match_by_external_id(candidate, pool) == NoResult

\* rows of every election year are compared
YearMismatch_never(candidate_year, existing_year) == FALSE

\* election years differ and both are specified (0 and None are falsy)
YearMismatch(candidate_year, existing_year) ==
    candidate_year # 0 /\ existing_year # 0 /\ candidate_year # existing_year

\* no penalty for differing parties
party_match_ignored(candidate_party, existing_party_raw) == 2

\* party_match, in halves: 2 is 1.0, 1 is the 0.5 penalty.  The incoming
\* party is tested after normalization, the existing one before it.
party_match(candidate_party, existing_party_raw) ==
    IF Truthy(candidate_party) /\ Truthy(existing_party_raw)
       /\ candidate_party # normalize_string(existing_party_raw)
    THEN 1 ELSE 2

\* the weights of name and office sum to 1: name_score * 0.7 + office_score * 0.3
name_office_score_full_weight(name_score, office_score, pm) ==
    (7 * name_score + 3 * office_score) * pm

\* (name_score * 0.6 + office_score * 0.3) * party_match
name_office_score(name_score, office_score, pm) ==
    (6 * name_score + 3 * office_score) * pm

\* the exact-match shortcut
IsExact(name_score, office_score, pm) ==
    name_score = 100 /\ office_score = 100 /\ pm = 2

\* the best match returned whatever its score
AboveThreshold_any(best_match, best_score) ==
    IF best_match # 0 THEN Result(best_match, best_score) ELSE NoResult

\* "return best match if above threshold"
AboveThreshold(best_match, best_score) ==
    IF best_match # 0 /\ best_score >= REVIEW_THRESHOLD * Scale
    THEN Result(best_match, best_score)
    ELSE NoResult

\* what one pool row does to the loop: it is skipped, returned at once, or scored
Skipped == [kind |-> "skip", score |-> 0]
Returned(score) == [kind |-> "return", score |-> score]
Scored(score) == [kind |-> "score", score |-> score]

\* the loop body without the exact-match shortcut
name_office_row_without_shortcut(year_mismatch, name_score, office_score, pm) ==
    IF year_mismatch THEN Skipped
    ELSE IF name_score < 70 THEN Skipped
    ELSE Scored(name_office_score(name_score, office_score, pm))

\* the loop body without the floor on the name similarity
name_office_row_without_floor(year_mismatch, name_score, office_score, pm) ==
    IF year_mismatch THEN Skipped
    ELSE IF IsExact(name_score, office_score, pm)
    THEN Returned(EXACT_MATCH_THRESHOLD * Scale)
    ELSE Scored(name_office_score(name_score, office_score, pm))

\* the body of the loop of match_by_name_and_office, given the row's scores
name_office_row(year_mismatch, name_score, office_score, pm) ==
    IF year_mismatch THEN Skipped
    ELSE IF name_score < 70 THEN Skipped
    ELSE IF IsExact(name_score, office_score, pm)
    THEN Returned(EXACT_MATCH_THRESHOLD * Scale)
    ELSE Scored(name_office_score(name_score, office_score, pm))

\* the body of the loop of match_by_name_and_office for one existing row
name_office_pair(candidate, existing) ==
    name_office_row(YearMismatch(candidate.election_year, existing.election_year),
                    fuzz_ratio(normalize_string(candidate.full_name),
                               normalize_string(existing.full_name)),
                    fuzz_ratio(normalize_string(candidate.office_name),
                               normalize_string(existing.office_name)),
                    party_match(normalize_string(candidate.party), existing.party))

\* an initial gets the plain similarity
initial_rule_off(candidate_first, existing_first, first_score) ==
    first_score

\* first name or initial
initial_rule(candidate_first, existing_first, first_score) ==
    IF Char(candidate_first, 1) = Char(existing_first, 1)
       /\ (Len(candidate_first) = 1 \/ Len(existing_first) = 1)
    THEN Max(first_score, 85)
    ELSE first_score

first_name_score(candidate_first, existing_first) ==
    IF candidate_first # "" /\ existing_first # ""
    THEN initial_rule(candidate_first, existing_first,
                      fuzz_ratio(candidate_first, existing_first))
    ELSE 0

\* office level and district
context_score(candidate, existing) ==
    (IF normalize_string(candidate.office_level) = normalize_string(existing.office_level)
     THEN 50 ELSE 0)
    + (IF Truthy(candidate.district_number) /\ Truthy(existing.ocd_division_id)
          /\ Contains(existing.ocd_division_id, candidate.district_number)
       THEN 50 ELSE 0)

\* the last name weighted 0.5
fuzzy_name_score_heavy_last(last_name_score, first_score, context) ==
    10 * last_name_score + 6 * first_score + 6 * context

\* last_name_score * 0.4 + first_name_score * 0.3 + context_score * 0.3
fuzzy_name_score(last_name_score, first_score, context) ==
    8 * last_name_score + 6 * first_score + 6 * context

\* the loop body without the floor on the last name similarity
fuzzy_name_row_without_floor(existing_last, last_name_score, first_score, context) ==
    IF existing_last = "" THEN Skipped
    ELSE Scored(fuzzy_name_score(last_name_score, first_score, context))

\* the body of the loop of match_by_fuzzy_name, given the row's scores
fuzzy_name_row(existing_last, last_name_score, first_score, context) ==
    IF existing_last = "" THEN Skipped
    ELSE IF last_name_score < 85 THEN Skipped
    ELSE Scored(fuzzy_name_score(last_name_score, first_score, context))

\* the loop body with Strategy B's election year filter in front
fuzzy_name_pair_same_year(candidate, existing) ==
    IF YearMismatch(candidate.election_year, existing.election_year) THEN Skipped
    ELSE fuzzy_name_row(normalize_string(existing.last_name),
                        fuzz_ratio(normalize_string(candidate.last_name),
                                   normalize_string(existing.last_name)),
                        first_name_score(normalize_string(candidate.first_name),
                                         normalize_string(existing.first_name)),
                        context_score(candidate, existing))

\* the body of the loop of match_by_fuzzy_name for one existing row
fuzzy_name_pair(candidate, existing) ==
    fuzzy_name_row(normalize_string(existing.last_name),
                   fuzz_ratio(normalize_string(candidate.last_name),
                              normalize_string(existing.last_name)),
                   first_name_score(normalize_string(candidate.first_name),
                                    normalize_string(existing.first_name)),
                   context_score(candidate, existing))

\* a strategy's loop over the pool from position k on: rows[k] is what the
\* loop body does with pool row k; a row replaces the best only with a
\* strictly greater score
RECURSIVE scan(_, _, _, _)
\* a later row replaces the best with an equal score as well
scan_row_last_wins(rows, k, best_match, best_score, row) ==
    IF row.kind = "return" THEN Result(k, row.score)
    ELSE IF row.kind = "score" /\ row.score >= best_score
    THEN scan(rows, k + 1, k, row.score)
    ELSE scan(rows, k + 1, best_match, best_score)

scan_row(rows, k, best_match, best_score, row) ==
    IF row.kind = "return" THEN Result(k, row.score)
    ELSE IF row.kind = "score" /\ row.score > best_score
    THEN scan(rows, k + 1, k, row.score)
    ELSE scan(rows, k + 1, best_match, best_score)

scan(rows, k, best_match, best_score) ==
    IF k > Len(rows) THEN AboveThreshold(best_match, best_score)
    ELSE scan_row(rows, k, best_match, best_score, rows[k])

match_by_name_and_office(candidate, pool) ==
    scan([k \in 1..Len(pool) |-> name_office_pair(candidate, pool[k])], 1, 0, 0)

match_by_fuzzy_name(candidate, pool) ==
    IF normalize_string(candidate.last_name) = "" THEN NoResult
    ELSE scan([k \in 1..Len(pool) |-> fuzzy_name_pair(candidate, pool[k])], 1, 0, 0)

\* find_match returns (matched_candidate, confidence, match_method)
Match(r, method) == [matched |-> r.pos, confidence |-> r.score, method |-> method]
NoMatch == [matched |-> 0, confidence |-> 0, method |-> "no_match"]

\* "return best match": name/office wins only with the strictly greater score
BestOf(match, fuzzy_match) ==
    IF match.found /\ fuzzy_match.found
    THEN IF match.score > fuzzy_match.score
         THEN Match(match, "name_office")
         ELSE Match(fuzzy_match, "fuzzy_name")
    ELSE IF match.found THEN Match(match, "name_office")
    ELSE IF fuzzy_match.found THEN Match(fuzzy_match, "fuzzy_name")
    ELSE NoMatch

\* find_match without the early acceptance of a high-confidence Strategy B result
cascade_best_only(ext, match, fuzzy_match) ==
    IF ext.found THEN Match(ext, "external_id")
    ELSE BestOf(match, fuzzy_match)

\* find_match labelling an accepted Strategy B result like any other
cascade_one_label(ext, match, fuzzy_match) ==
    IF ext.found THEN Match(ext, "external_id")
    ELSE IF match.found /\ match.score >= HIGH_CONFIDENCE_THRESHOLD * Scale
    THEN Match(match, "name_office")
    ELSE BestOf(match, fuzzy_match)

\* the cascade of find_match over the strategies' results
cascade(ext, match, fuzzy_match) ==
    IF ext.found THEN Match(ext, "external_id")
    ELSE IF match.found /\ match.score >= HIGH_CONFIDENCE_THRESHOLD * Scale
    THEN Match(match, "name_office_exact")
    ELSE BestOf(match, fuzzy_match)

find_match(candidate, pool) ==
    cascade(match_by_external_id(candidate, pool),
            match_by_name_and_office(candidate, pool),
            match_by_fuzzy_name(candidate, pool))

(***************************************************************************)
(* CandidateMatcher.process_candidates                                     *)
(* The batch is a list of candidate_data objects; a bucket is a list of    *)
(* references to them, i.e. of batch positions.                            *)
(***************************************************************************)
NoMatchInfo == [candidate_id |-> 0, confidence |-> 0, method |-> "", existing_name |-> None]

EmptyResults == [new |-> <<>>, update |-> <<>>, review |-> <<>>, skip |-> <<>>]

\* Bucket with exclusive lower boundaries
Bucket_exclusive(confidence) ==
    IF confidence > HIGH_CONFIDENCE_THRESHOLD * Scale THEN "update"
    ELSE IF confidence > REVIEW_THRESHOLD * Scale THEN "review"
    ELSE "new"

\* the bucket of a matched record
Bucket(confidence) ==
    IF confidence >= HIGH_CONFIDENCE_THRESHOLD * Scale THEN "update"
    ELSE IF confidence >= REVIEW_THRESHOLD * Scale THEN "review"
    ELSE "new"

\* the annotation taken from the first row of the pool
MatchInfo_first_row(m, pool) ==
    [candidate_id  |-> pool[1].id,
     confidence    |-> m.confidence,
     method        |-> m.method,
     existing_name |-> pool[1].full_name]

\* candidate_data['match_info'] of a matched record
MatchInfo(m, pool) ==
    [candidate_id  |-> pool[m.matched].id,
     confidence    |-> m.confidence,
     method        |-> m.method,
     existing_name |-> pool[m.matched].full_name]

\* the pool with a row for each record bucketed new so far
PoolFor_with_new(st, pool, i) ==
    pool \o [k \in 1..Len(st.results.new) |->
                [id              |-> Len(pool) + k,
                 full_name       |-> st.candidates[st.results.new[k]].candidate.full_name,
                 first_name      |-> st.candidates[st.results.new[k]].candidate.first_name,
                 last_name       |-> st.candidates[st.results.new[k]].candidate.last_name,
                 party           |-> st.candidates[st.results.new[k]].candidate.party,
                 office_level    |-> st.candidates[st.results.new[k]].candidate.office_level,
                 office_name     |-> st.candidates[st.results.new[k]].candidate.office_name,
                 ocd_division_id |-> st.candidates[st.results.new[k]].candidate.ocd_division_id,
                 election_year   |-> st.candidates[st.results.new[k]].candidate.election_year]]

\* a pool row matched by an earlier record of the batch is taken out
PoolFor_without_matched(st, pool, i) ==
    SelectSeq(pool, LAMBDA row :
        \A j \in 1..Len(st.found) :
            st.candidates[j].match_info.candidate_id # row.id)

\* the pool a record of the batch is matched against
PoolFor(st, pool, i) == pool

\* a record that already carries an annotation is skipped
place_once(st, pool, i, m) ==
    IF st.candidates[i].match_info # NoMatchInfo
    THEN [st EXCEPT !.results.skip = Append(@, i), !.found = Append(@, m)]
    ELSE IF m.matched # 0
    THEN [results        |-> [st.results EXCEPT ![Bucket(m.confidence)] = Append(@, i)],
          candidates     |-> [st.candidates EXCEPT ![i].match_info = MatchInfo(m, pool)],
          found          |-> Append(st.found, m),
          matches_found  |-> st.matches_found + 1,
          new_candidates |-> st.new_candidates]
    ELSE [results        |-> [st.results EXCEPT !.new = Append(@, i)],
          candidates     |-> st.candidates,
          found          |-> Append(st.found, m),
          matches_found  |-> st.matches_found,
          new_candidates |-> st.new_candidates + 1]

\* a record put into update falls through into review as well
place_fall_through(st, pool, i, m) ==
    IF m.matched # 0
    THEN [results        |-> IF Bucket(m.confidence) = "update"
                             THEN [st.results EXCEPT !.update = Append(@, i),
                                                     !.review = Append(@, i)]
                             ELSE [st.results EXCEPT ![Bucket(m.confidence)] = Append(@, i)],
          candidates     |-> [st.candidates EXCEPT ![i].match_info = MatchInfo(m, pool)],
          found          |-> Append(st.found, m),
          matches_found  |-> st.matches_found + 1,
          new_candidates |-> st.new_candidates]
    ELSE [results        |-> [st.results EXCEPT !.new = Append(@, i)],
          candidates     |-> st.candidates,
          found          |-> Append(st.found, m),
          matches_found  |-> st.matches_found,
          new_candidates |-> st.new_candidates + 1]

\* the normalized name is written back into the incoming record
place_normalizing(st, pool, i, m) ==
    IF m.matched # 0
    THEN [results        |-> [st.results EXCEPT ![Bucket(m.confidence)] = Append(@, i)],
          candidates     |-> [st.candidates EXCEPT
                                 ![i].match_info = MatchInfo(m, pool),
                                 ![i].candidate.full_name = normalize_string(@)],
          found          |-> Append(st.found, m),
          matches_found  |-> st.matches_found + 1,
          new_candidates |-> st.new_candidates]
    ELSE [results        |-> [st.results EXCEPT !.new = Append(@, i)],
          candidates     |-> st.candidates,
          found          |-> Append(st.found, m),
          matches_found  |-> st.matches_found,
          new_candidates |-> st.new_candidates + 1]

\* a record put into review is not counted as a match
place_review_uncounted(st, pool, i, m) ==
    IF m.matched # 0
    THEN [results        |-> [st.results EXCEPT ![Bucket(m.confidence)] = Append(@, i)],
          candidates     |-> [st.candidates EXCEPT ![i].match_info = MatchInfo(m, pool)],
          found          |-> Append(st.found, m),
          matches_found  |-> st.matches_found
                               + (IF Bucket(m.confidence) = "update" THEN 1 ELSE 0),
          new_candidates |-> st.new_candidates
                               + (IF Bucket(m.confidence) = "new" THEN 1 ELSE 0)]
    ELSE [results        |-> [st.results EXCEPT !.new = Append(@, i)],
          candidates     |-> st.candidates,
          found          |-> Append(st.found, m),
          matches_found  |-> st.matches_found,
          new_candidates |-> st.new_candidates + 1]

\* the branches of the loop body for record i, given find_match's result m
place(st, pool, i, m) ==
    IF m.matched # 0
    THEN [results        |-> [st.results EXCEPT ![Bucket(m.confidence)] = Append(@, i)],
          candidates     |-> [st.candidates EXCEPT ![i].match_info = MatchInfo(m, pool)],
          found          |-> Append(st.found, m),
          matches_found  |-> st.matches_found + 1,
          new_candidates |-> st.new_candidates
                               + (IF Bucket(m.confidence) = "new" THEN 1 ELSE 0)]
    ELSE [results        |-> [st.results EXCEPT !.new = Append(@, i)],
          candidates     |-> st.candidates,
          found          |-> Append(st.found, m),
          matches_found  |-> st.matches_found,
          new_candidates |-> st.new_candidates + 1]

\* one iteration of the loop: record i of the batch
categorize(st, pool, i) ==
    place(st, PoolFor(st, pool, i), i,
          find_match(st.candidates[i].candidate, PoolFor(st, pool, i)))

\* candidate['full_name'] raises KeyError when the dictionary has no such key
KeyError(candidate) == candidate.full_name = Missing

\* the loop ends after the last record, or at the record for which find_match
\* raises: no handler surrounds the call
RECURSIVE process_loop(_, _, _)
process_loop(st, pool, i) ==
    IF i > Len(st.candidates) \/ KeyError(st.candidates[i].candidate) THEN st
    ELSE process_loop(categorize(st, pool, i), pool, i + 1)

\* the loop was left by an exception: some record was not reached
Raised(out) == Len(out.found) < Len(out.candidates)

\* process_candidates on a matcher with the given pool and counters
process_candidates(batch, pool, found_so_far, new_so_far) ==
    process_loop([results |-> EmptyResults, candidates |-> batch, found |-> <<>>,
                  matches_found |-> found_so_far, new_candidates |-> new_so_far],
                 pool, 1)

(***************************************************************************)
(* Records: NormalizedCandidate dictionaries and DatabaseCandidate rows    *)
(***************************************************************************)
Candidate(full, first, last, party, level, office, district, ocd, year) ==
    [full_name |-> full, first_name |-> first, last_name |-> last, party |-> party,
     office_level |-> level, office_name |-> office, district_number |-> district,
     ocd_division_id |-> ocd, election_year |-> year]

DatabaseCandidate(id, full, first, last, party, level, office, ocd, year) ==
    [id |-> id, full_name |-> full, first_name |-> first, last_name |-> last,
     party |-> party, office_level |-> level, office_name |-> office,
     ocd_division_id |-> ocd, election_year |-> year]

\* src/Maryland/src/config.py:49
ELECTION_YEAR == 2026

\* incoming records the batch is drawn from
IncomingRecords ==
    { Candidate("Jonathan Simmons", "Jonathan", "Simmons", "D", "state", "Mayor", "3", "d3", 2026),
      Candidate("Jonathan Simmons", None, None, "R", "state", "Mayor", None, None, 0),
      Candidate("Jonathan Simmons", "Johanna", "Simmonds", None, "state", "Mayors", "3", "d3", 2026),
      Candidate("Johnathan Simmon", "Johnathan", "Simmon", "D", "state", "Mayor", "3", "d3", 2026),
      Candidate(" Jonathan Simmons", "Jonathan", "Simmons", " ", "state", "Mayors", None, None, 2024) }

\* existing rows the pool is drawn from (the id is given by the pool position)
ExistingRecords ==
    { DatabaseCandidate(0, "JONATHAN SIMMONS", "Jonathan", "Simmons", "d ", "state", " Mayor", "d3", 2026),
      DatabaseCandidate(0, "Jonathan Simmons", "Jonathan", "Simmons", None, "state", "Mayors", "d3", 2026),
      DatabaseCandidate(0, "Jonathan Simmons", None, None, "R", "local", "Mayor", None, 0),
      DatabaseCandidate(0, "J Simmons", "J", "Simmons", " ", "state", "Mayor", "d13", 2024),
      DatabaseCandidate(0, "Bo Hu", "Bo", "Hu", "R", "local", "Judge", None, 2026) }

MaxPool == 2
MaxBatch == 2
MaxCalls == 2
MaxRuns == 2

SeqsUpTo(S, n) == UNION { [1..m -> S] : m \in 0..n }

\* rows get distinct ids
WithIds(rows) == [k \in 1..Len(rows) |-> [rows[k] EXCEPT !.id = k]]

\* the transformer's output: candidate_data without a match_info key
CandidateData(candidate) == [candidate |-> candidate, match_info |-> NoMatchInfo]

VARIABLES
    registry,             \* the candidates table
    existing_candidates,  \* CandidateMatcher.existing_candidates, the pool
    candidates,           \* the batch of candidate_data
    results,              \* the categorized batch last returned
    matches_found,        \* CandidateMatcher.matches_found
    new_candidates,       \* CandidateMatcher.new_candidates
    calls,                \* process_candidates calls made on this matcher
    run,                  \* number of the ingest run
    found,                \* history: what find_match returned for each record
    prev_new,             \* history: batch positions bucketed new by the previous run
    effects,              \* what the run has issued: database writes and review log lines
    pc,                   \* the step of run_maryland_update reached
    dry_run,              \* config.DRY_RUN
    source_state,         \* whose orchestrator runs: Maryland's, or Delaware's and North Carolina's
    stats,                \* UpdateStatistics of the run
    fetches,              \* the run's calls of get_existing_candidates, with their outcome
    exit_status           \* <<>> while the process runs, then the status main exits with

vars == <<registry, existing_candidates, candidates, results, matches_found,
          new_candidates, calls, run, found, prev_new, effects, pc,
          dry_run, source_state, stats, fetches, exit_status>>

\* what belongs to the orchestrator alone
orchestrator == <<dry_run, source_state, stats, fetches, exit_status>>

\* UpdateStatistics as run_maryland_update creates it
NewStatistics == [new_candidates |-> 0, updated_candidates |-> 0, errors |-> 0]

\* the matcher is used on its own, outside a run
Standalone ==
    /\ dry_run = FALSE
    /\ source_state = "MD"
    /\ stats = NewStatistics
    /\ fetches = <<>>
    /\ exit_status = <<>>

\* CandidateMatcher.__init__ on any pool, before the first batch:
\* deduplicate_candidates takes any list of DatabaseCandidate rows
Init ==
    /\ \E pool \in SeqsUpTo(ExistingRecords, MaxPool) :
          /\ registry = WithIds(pool)
          /\ existing_candidates = WithIds(pool)
    /\ \E batch \in SeqsUpTo(IncomingRecords, MaxBatch) :
          candidates = [k \in 1..Len(batch) |-> CandidateData(batch[k])]
    /\ results = EmptyResults
    /\ matches_found = 0
    /\ new_candidates = 0
    /\ calls = 0
    /\ run = 1
    /\ found = <<>>
    /\ prev_new = {}
    /\ effects = <<>>
    /\ pc = "ready"
    /\ Standalone

\* a process_candidates call that ends in the state out: it returns the
\* buckets, or the exception propagates to run_maryland_update, whose handler
\* ends the run
Processed(out) ==
    /\ results' = IF Raised(out) THEN results ELSE out.results
    /\ candidates' = out.candidates
    /\ found' = out.found
    /\ matches_found' = out.matches_found
    /\ new_candidates' = out.new_candidates
    /\ calls' = calls + 1
    /\ pc' = IF Raised(out) THEN "failed" ELSE "categorized"
    /\ UNCHANGED <<registry, existing_candidates, run, prev_new, effects>>
    /\ UNCHANGED orchestrator

\* the effect of one process_candidates call on the matcher and the batch
Process ==
    Processed(process_candidates(candidates, existing_candidates,
                                 matches_found, new_candidates))

\* deduplicate_candidates: a new matcher categorizes the batch
DeduplicateCandidates ==
    /\ pc = "ready"
    /\ Process

\* process_candidates once more on the same matcher and the same objects
ProcessCandidatesAgain ==
    /\ pc = "categorized"
    /\ calls < MaxCalls
    /\ Process

\* insert_candidate followed by the row's conversion in get_existing_candidates
InsertedRow(id, candidate) ==
    DatabaseCandidate(id, candidate.full_name, candidate.first_name,
                      candidate.last_name, candidate.party, candidate.office_level,
                      candidate.office_name, candidate.ocd_division_id,
                      candidate.election_year)

RECURSIVE insert_all(_, _, _)
insert_all(table, batch, new) ==
    IF new = <<>> THEN table
    ELSE insert_all(Append(table, InsertedRow(Len(table) + 1, batch[Head(new)].candidate)),
                    batch, Tail(new))

\* an insert, update or match write for batch record i and row id, or a
\* review log line
Effect(op, i, id) == [op |-> op, record |-> i, id |-> id]

\* step 8 of run_maryland_update: every record of the new bucket is inserted
InsertNewCandidates ==
    /\ pc = "categorized"
    /\ registry' = insert_all(registry, candidates, results.new)
    /\ effects' = effects \o [k \in 1..Len(results.new) |->
                                Effect("insert", results.new[k], Len(registry) + k)]
    /\ pc' = "inserted"
    /\ UNCHANGED <<existing_candidates, candidates, results, matches_found,
                   new_candidates, calls, run, found, prev_new>>
    /\ UNCHANGED orchestrator

\* get_existing_candidates(ELECTION_YEAR)
InElectionYear(row) == row.election_year = ELECTION_YEAR
get_existing_candidates(table) == SelectSeq(table, InElectionYear)

\* the next ingest run: the same batch is transformed afresh, the pool is
\* fetched and a new matcher is constructed
NextRun ==
    /\ pc = "inserted"
    /\ run < MaxRuns
    /\ existing_candidates' = get_existing_candidates(registry)
    /\ candidates' = [k \in 1..Len(candidates) |-> CandidateData(candidates[k].candidate)]
    /\ results' = EmptyResults
    /\ matches_found' = 0
    /\ new_candidates' = 0
    /\ calls' = 0
    /\ run' = run + 1
    /\ found' = <<>>
    /\ prev_new' = { results.new[k] : k \in 1..Len(results.new) }
    /\ effects' = <<>>
    /\ pc' = "ready"
    /\ UNCHANGED registry
    /\ UNCHANGED orchestrator

Next ==
    \/ DeduplicateCandidates
    \/ ProcessCandidatesAgain
    \/ InsertNewCandidates
    \/ NextRun

Spec == Init /\ [][Next]_vars


(***************************************************************************)
(* Properties                                                              *)
(***************************************************************************)
Range(seq) == { seq[k] : k \in 1..Len(seq) }
Batch == 1..Len(candidates)
Pool == 1..Len(existing_candidates)
Categorized == pc = "categorized"
Incoming(i) == candidates[i].candidate

\* what the strategies return for record i against the matcher's pool
StrategyB(i) == match_by_name_and_office(candidates[i].candidate, existing_candidates)
StrategyC(i) == match_by_fuzzy_name(candidates[i].candidate, existing_candidates)

\* C1: every record is bucketed by the result of find_match: no match -> new,
\* confidence >= 95 -> update, 85 <= confidence < 95 -> review; the lower
\* boundaries 95 and 85 are inclusive.
C1_BucketsFollowConfidence ==
    Categorized =>
        \A i \in Batch :
            /\ found[i].matched = 0 => i \in Range(results.new)
            /\ (found[i].matched # 0 /\ found[i].confidence >= 95 * Scale)
                  => i \in Range(results.update)
            /\ (found[i].matched # 0 /\ found[i].confidence >= 85 * Scale
                                     /\ found[i].confidence < 95 * Scale)
                  => i \in Range(results.review)

\* a batch with a record at exactly 95 in update and one at exactly 85 in review
C1_Witness ==
    /\ pc = "categorized"
    /\ \E i \in Range(results.update) : candidates[i].match_info.confidence = 95 * Scale
    /\ \E i \in Range(results.review) : candidates[i].match_info.confidence = 85 * Scale

\* record i and pool row k meet the conditions of the exact-match shortcut:
\* compatible years, identical normalized name and office, compatible party
ExactPair(i, k) ==
    /\ ~YearMismatch(Incoming(i).election_year, existing_candidates[k].election_year)
    /\ normalize_string(Incoming(i).full_name)
          = normalize_string(existing_candidates[k].full_name)
    /\ normalize_string(Incoming(i).office_name)
          = normalize_string(existing_candidates[k].office_name)
    /\ party_match(normalize_string(Incoming(i).party), existing_candidates[k].party) = 2

\* C2: when some pool row meets the conditions of the exact-match shortcut,
\* find_match returns confidence 100, method name_office_exact and a row that
\* meets them, whatever the pool order and its other rows, and whatever
\* Strategy C would return.
C2_ExactMatchShortcut ==
    Categorized =>
        \A i \in Batch :
            (\E k \in Pool : ExactPair(i, k)) =>
                /\ found[i].confidence = EXACT_MATCH_THRESHOLD * Scale
                /\ found[i].method = "name_office_exact"
                /\ found[i].matched \in Pool
                /\ ExactPair(i, found[i].matched)

\* the exact row comes second in the pool and Strategy C scores the first row 100
C2_Witness ==
    /\ pc = "categorized"
    /\ Len(existing_candidates) = 2
    /\ \E i \in Batch :
          /\ ExactPair(i, 2)
          /\ ~ExactPair(i, 1)
          /\ StrategyC(i) = Result(1, 100 * Scale)
          /\ found[i] = [matched |-> 2, confidence |-> 100 * Scale,
                         method |-> "name_office_exact"]

\* C3 as stated: when Strategy B (below high confidence) and Strategy C both
\* return a candidate, Strategy C's result is returned only if its confidence
\* is strictly greater; with equal confidences the Strategy B result wins.
C3_TiesFavorNameOffice ==
    Categorized =>
        \A i \in Batch :
            (/\ StrategyB(i).found
             /\ StrategyB(i).score < HIGH_CONFIDENCE_THRESHOLD * Scale
             /\ StrategyC(i).found) =>
                found[i] = IF StrategyC(i).score > StrategyB(i).score
                           THEN Match(StrategyC(i), "fuzzy_name")
                           ELSE Match(StrategyB(i), "name_office")

\* the pool of this run is the pool of the previous run enlarged by the rows
\* inserted for its new bucket: no row of the table was left out by the fetch
PoolIncorporatesNew == run > 1 /\ existing_candidates = registry

\* C4: when the same batch is categorized against the pool enlarged by the
\* records the previous run bucketed new (name, office, party and year
\* unchanged), the new bucket is empty and each of those records is in update
\* with confidence 100 and method name_office_exact.
C4_IdempotentReingestion ==
    (pc = "categorized" /\ PoolIncorporatesNew) =>
        /\ results.new = <<>>
        /\ \A i \in prev_new :
              /\ i \in Range(results.update)
              /\ found[i].confidence = EXACT_MATCH_THRESHOLD * Scale
              /\ found[i].method = "name_office_exact"

\* a second run in which two records of the first run's new bucket are matched
\* to the rows inserted for them
C4_Witness ==
    /\ pc = "categorized"
    /\ PoolIncorporatesNew
    /\ Cardinality(prev_new) = 2
    /\ results.update = <<1, 2>>
    /\ Len(existing_candidates) > 2

\* C5: find_match returns either (no candidate, 0, no_match) or a member of
\* the pool with 85 <= confidence <= 100 and one of the three methods; a
\* matched record is never bucketed new, so each call counts every record
\* once, as a match or as a new candidate.
C5_MatchResultWellFormed ==
    Categorized =>
        /\ \A i \in Batch :
              /\ \/ found[i] = NoMatch
                 \/ /\ found[i].matched \in Pool
                    /\ found[i].confidence >= REVIEW_THRESHOLD * Scale
                    /\ found[i].confidence <= EXACT_MATCH_THRESHOLD * Scale
                    /\ found[i].method \in {"name_office_exact", "name_office", "fuzzy_name"}
              /\ i \in Range(results.new) => found[i] = NoMatch
        /\ matches_found + new_candidates = calls * Len(candidates)

\* a record whose best pair scores above 0 but below 85 gets no match, next to
\* a record that is matched
C5_Witness ==
    /\ pc = "categorized"
    /\ \E i \in Batch :
          /\ found[i] = NoMatch
          /\ \E k \in Pool :
                /\ name_office_pair(Incoming(i), existing_candidates[k]).kind = "score"
                /\ name_office_pair(Incoming(i), existing_candidates[k]).score > 0
    /\ \E j \in Batch : found[j].matched # 0

\* both parties are specified and differ after normalization
PartiesDiffer(i, k) ==
    /\ normalize_string(Incoming(i).party) # ""
    /\ normalize_string(existing_candidates[k].party) # ""
    /\ normalize_string(Incoming(i).party) # normalize_string(existing_candidates[k].party)

\* the scenario of identical name and office with differing parties: a pool of
\* that one row, an incoming record without first and last name
PartyScenario(i) ==
    /\ Len(existing_candidates) = 1
    /\ PartiesDiffer(i, 1)
    /\ normalize_string(Incoming(i).full_name)
          = normalize_string(existing_candidates[1].full_name)
    /\ normalize_string(Incoming(i).office_name)
          = normalize_string(existing_candidates[1].office_name)
    /\ ~Truthy(Incoming(i).first_name)
    /\ ~Truthy(Incoming(i).last_name)

\* what the loop body of Strategy B does with a penalized row: no immediate
\* return, and a score of at most 45
Penalized(row) == row.kind # "return" /\ row.score <= 45 * Scale

\* Strategy B, returning b for record i, returns no row whose party differs
NoDifferingRow(i, b) == \A k \in Pool : PartiesDiffer(i, k) => b.pos # k

\* C6: for a pair whose parties are both specified and differ, the exact-match
\* shortcut does not fire, Strategy B scores the pair at most 45 and never
\* returns that row; in the scenario find_match returns no match and the
\* record is bucketed new.
C6_PartyMismatchPenalty ==
    Categorized =>
        \A i \in Batch :
            /\ \A k \in Pool :
                  PartiesDiffer(i, k) =>
                      Penalized(name_office_pair(Incoming(i), existing_candidates[k]))
            /\ NoDifferingRow(i, StrategyB(i))
            /\ PartyScenario(i) => (found[i] = NoMatch /\ i \in Range(results.new))

\* the scenario, with the pair scored exactly 45
C6_Witness ==
    /\ pc = "categorized"
    /\ \E i \in Batch :
          /\ PartyScenario(i)
          /\ name_office_pair(Incoming(i), existing_candidates[1]) = Scored(45 * Scale)
          /\ i \in Range(results.new)

\* C7: a second process_candidates call on the same matcher and on the record
\* objects the first call annotated returns the same buckets, the same matched
\* candidate, confidence and method for every record.
C7_SecondCallSameOutcome ==
    [][ProcessCandidatesAgain =>
          /\ results' = results
          /\ found' = found
          /\ candidates' = candidates]_vars

\* after the second call on a batch with an annotated and an unannotated record
C7_Witness ==
    /\ pc = "categorized"
    /\ calls = 2
    /\ \E i \in Batch : candidates[i].match_info # NoMatchInfo
    /\ \E i \in Batch : candidates[i].match_info = NoMatchInfo

\* the buckets of a result that hold batch position i
BucketsOf(res, i) == { b \in {"new", "update", "review", "skip"} : i \in Range(res[b]) }

\* record i has in the batch the outcome it has in the call `alone`
SameOutcome(i, alone) ==
    /\ BucketsOf(results, i) = BucketsOf(alone.results, 1)
    /\ found[i] = alone.found[1]
    /\ candidates[i].match_info = alone.candidates[1].match_info

\* C8: the outcome for a record (bucket, matched candidate, confidence,
\* method) is the outcome of categorizing that record alone against the same
\* pool, whatever the other records of the batch and their order.
C8_RecordsIndependent ==
    Categorized =>
        \A i \in Batch :
            \A alone \in { process_candidates(<<CandidateData(Incoming(i))>>,
                                               existing_candidates, 0, 0) } :
                SameOutcome(i, alone)

\* two different records matched to the same existing candidate
C8_Witness ==
    /\ pc = "categorized"
    /\ Len(candidates) = 2
    /\ Incoming(1) # Incoming(2)
    /\ found[1].matched # 0
    /\ found[1].matched = found[2].matched

\* C9: a record carries a match_info annotation exactly if it is in update or
\* review; the annotation holds the id and full_name of the pool member
\* find_match returned and the confidence and method it returned.
C9_MatchInfoAnnotation ==
    Categorized =>
        \A i \in Batch :
            /\ candidates[i].match_info # NoMatchInfo
                  <=> i \in Range(results.update) \cup Range(results.review)
            /\ i \in Range(results.update) \cup Range(results.review) =>
                  /\ found[i].matched \in Pool
                  /\ candidates[i].match_info =
                        [candidate_id  |-> existing_candidates[found[i].matched].id,
                         confidence    |-> found[i].confidence,
                         method        |-> found[i].method,
                         existing_name |-> existing_candidates[found[i].matched].full_name]

\* a record annotated with the second row of the pool next to a new record
C9_Witness ==
    /\ pc = "categorized"
    /\ \E i \in Range(results.review) :
          /\ found[i].matched = 2
          /\ candidates[i].match_info.existing_name = existing_candidates[2].full_name
          /\ candidates[i].match_info.existing_name # existing_candidates[1].full_name
    /\ \E i \in Range(results.new) : candidates[i].match_info = NoMatchInfo

\* the number of times batch position i occurs in a bucket
Occurrences(bucket, i) == Cardinality({ k \in 1..Len(bucket) : bucket[k] = i })

\* a bucket lists batch positions in increasing order
InBatchOrder(bucket) ==
    \A k \in 1..Len(bucket) : \A l \in 1..Len(bucket) : k < l => bucket[k] < bucket[l]

\* C10: every record is in exactly one of new, update, review, exactly once;
\* the bucket sizes sum to the batch size; each bucket keeps the order of the
\* batch; skip is empty.
C10_BucketsPartitionBatch ==
    Categorized =>
        /\ \A i \in Batch :
              Occurrences(results.new, i) + Occurrences(results.update, i)
                 + Occurrences(results.review, i) = 1
        /\ Len(results.new) + Len(results.update) + Len(results.review) = Len(candidates)
        /\ InBatchOrder(results.new)
        /\ InBatchOrder(results.update)
        /\ InBatchOrder(results.review)
        /\ results.skip = <<>>

\* a batch of two with both records, in order, in one bucket
C10_Witness ==
    /\ pc = "categorized"
    /\ results.skip = <<>>
    /\ \/ results.review = <<1, 2>>
       \/ results.update = <<1, 2>>
       \/ results.new = <<1, 2>>

\* a step of the state machine is a process_candidates call
ProcessStep == calls' = calls + 1

\* C11: a process_candidates call leaves the pool (the list and every field of
\* every row) and the candidates table as they were, leaves every field of
\* every incoming record as it was, and changes the annotation of a record
\* only if find_match returned a row for it.
C11_InputsReadOnly ==
    [][ProcessStep =>
          /\ existing_candidates' = existing_candidates
          /\ registry' = registry
          /\ Len(candidates') = Len(candidates)
          /\ \A i \in Batch :
                /\ candidates'[i].candidate = candidates[i].candidate
                /\ candidates'[i].match_info # candidates[i].match_info
                      => found'[i].matched # 0]_vars

\* a call has annotated a record whose stored name is not in normalized form,
\* next to a record it left without annotation
C11_Witness ==
    /\ pc = "categorized"
    /\ \E i \in Batch :
          /\ candidates[i].match_info # NoMatchInfo
          /\ Incoming(i).full_name # normalize_string(Incoming(i).full_name)
    /\ \E i \in Batch : candidates[i].match_info = NoMatchInfo

(***************************************************************************)
(* The matcher on one incoming record: find_match and the two strategies   *)
(* on records with initials, empty and absent names and offices,           *)
(* whitespace-only parties and differing or unspecified election years.    *)
(***************************************************************************)
MatchIncoming ==
    { Candidate("Jonathan Simmons", "Jonathan", "Simmons", "D", "state", "Mayor", "3", "d3", 2026),
      Candidate("Jonathan Simmons", "Jonathan", "Simmons", " ", "state", "Mayors", "3", "d3", 2026),
      Candidate("J Smith", "J", "Smith", None, "state", "Mayor", "3", None, 2026),
      Candidate("Jonathan Simms", "Jonathan", "Simms", "D", "state", "Mayor", "3", "d3", 2026),
      Candidate("Jonathan Simmons", None, None, None, "state", "", None, None, 2026),
      Candidate("", "Jonathan", "Simmons", None, "state", "Mayor", "3", "d3", 2026),
      Candidate("Jonathan Simmons", None, None, None, "state", "Mayor", None, None, 2026),
      Candidate("Jonathan Simmons", "Jonathan", "Simmons", "D", "state", "Mayor", None, None, 2026) }

MatchExisting ==
    { DatabaseCandidate(0, "Jonathan Simmons", "Jonathan", "Simmons", " ", "state", "Mayor", "d3", 2026),
      DatabaseCandidate(0, "Jonathan Simmons", "Jonathan", "Simmons", "D", "state", "Mayor", "d3", 2024),
      DatabaseCandidate(0, "Jonathan Simmons", "Jonathan", "Simmons", None, "state", "Mayors", "d3", 0),
      DatabaseCandidate(0, "Bo Hu", "Bo", "Hu", None, "state", "Mayor", "d3", 2026),
      DatabaseCandidate(0, "John Smith", "John", "Smith", None, "state", "Mayor", "d3", 2026),
      DatabaseCandidate(0, "Jonathan Simmons", None, None, None, "state", "", None, 0),
      DatabaseCandidate(0, "", "Jonathan", "Simmons", None, "state", "Mayor", "d3", 2026),
      DatabaseCandidate(0, "Jonathan Simmons", "Jonathan", "Simmons", "R", "local", "Mayor", "d3", 2026),
      DatabaseCandidate(0, "Jonathan Simmons", None, "Simmons", None, "state", "Mayor", "d3", 2026) }

MaxMatchPool == 2

\* CandidateMatcher.__init__ on a pool of such rows, and a batch of one record
InitMatch ==
    /\ \E pool \in SeqsUpTo(MatchExisting, MaxMatchPool) :
          /\ registry = WithIds(pool)
          /\ existing_candidates = WithIds(pool)
    /\ \E candidate \in MatchIncoming : candidates = <<CandidateData(candidate)>>
    /\ results = EmptyResults
    /\ matches_found = 0
    /\ new_candidates = 0
    /\ calls = 0
    /\ run = 1
    /\ found = <<>>
    /\ prev_new = {}
    /\ effects = <<>>
    /\ pc = "ready"
    /\ Standalone

NextMatch ==
    \/ DeduplicateCandidates
    \/ ProcessCandidatesAgain

SpecMatch == InitMatch /\ [][NextMatch]_vars

\* the record of a batch of one, and what the loop bodies of the two
\* strategies do with pool row k for it
NameOfficeRow(k) == name_office_pair(Incoming(1), existing_candidates[k])
FuzzyNameRow(k) == fuzzy_name_pair(Incoming(1), existing_candidates[k])

\* the similarity of the normalized full names of the record and pool row k
NameScore(k) ==
    fuzz_ratio(normalize_string(Incoming(1).full_name),
               normalize_string(existing_candidates[k].full_name))

\* the similarity of the normalized office names of the record and pool row k
OfficeScore(k) ==
    fuzz_ratio(normalize_string(Incoming(1).office_name),
               normalize_string(existing_candidates[k].office_name))

\* C12: in Strategy B a pool row whose normalized full name is less than 70
\* similar to the incoming record's is skipped by the loop, so it is neither
\* scored nor returned, whatever the office similarity and the parties.
C12_NameFloor ==
    Categorized =>
        \A k \in Pool :
            NameScore(k) < 70 =>
                /\ NameOfficeRow(k) = Skipped
                /\ StrategyB(1).pos # k
                /\ (found[1].method \in {"name_office", "name_office_exact"}
                       => found[1].matched # k)

\* a row with an identical office name, a compatible year and no party, but a
\* dissimilar name, is not matched
C12_Witness ==
    /\ pc = "categorized"
    /\ \E k \in Pool :
          /\ NameScore(k) < 70
          /\ NameScore(k) > 0
          /\ OfficeScore(k) = 100
          /\ ~YearMismatch(Incoming(1).election_year, existing_candidates[k].election_year)
          /\ existing_candidates[k].party = None
          /\ found[1] = NoMatch

\* the similarity scores fuzz.ratio can return
Scores == 0..100

\* the combined score of Strategy B is at most 90 for all similarity scores
\* and both values of party_match
CombinedScoreAtMost90 ==
    \A name_score \in Scores : \A office_score \in Scores : \A pm \in {1, 2} :
        name_office_score(name_score, office_score, pm) <= 90 * Scale

\* C13: the combined score of Strategy B never exceeds 90, so every result of
\* Strategy B has confidence exactly 100 (the exact-match shortcut) or between
\* 85 and 90, and find_match returns method name_office_exact only with
\* confidence exactly 100.
C13_NameOfficeScoreBound ==
    Categorized =>
        /\ CombinedScoreAtMost90
        /\ \A k \in Pool :
              NameOfficeRow(k).kind = "score" => NameOfficeRow(k).score <= 90 * Scale
        /\ StrategyB(1).found =>
              \/ StrategyB(1).score = EXACT_MATCH_THRESHOLD * Scale
              \/ /\ StrategyB(1).score >= REVIEW_THRESHOLD * Scale
                 /\ StrategyB(1).score <= 90 * Scale
        /\ found[1].method = "name_office_exact" =>
              found[1].confidence = EXACT_MATCH_THRESHOLD * Scale

\* Strategy B returns a row with identical names and office similarity 91 at
\* 87.3, below 90, and find_match returns a higher Strategy C score for it
C13_Witness ==
    /\ pc = "categorized"
    /\ StrategyB(1).found
    /\ NameScore(StrategyB(1).pos) = 100
    /\ OfficeScore(StrategyB(1).pos) = 91
    /\ StrategyB(1).score = 1746
    /\ found[1].method = "fuzzy_name"

\* the normalized first names of the record and of pool row k
CandidateFirst == normalize_string(Incoming(1).first_name)
ExistingFirst(k) == normalize_string(existing_candidates[k].first_name)

\* both first names are present, they share their first character and at
\* least one of them is a single character
InitialPair(k) ==
    /\ CandidateFirst # ""
    /\ ExistingFirst(k) # ""
    /\ Char(CandidateFirst, 1) = Char(ExistingFirst(k), 1)
    /\ (Len(CandidateFirst) = 1 \/ Len(ExistingFirst(k)) = 1)

\* the similarity of the normalized last names of the record and pool row k
LastNameScore(k) ==
    fuzz_ratio(normalize_string(Incoming(1).last_name),
               normalize_string(existing_candidates[k].last_name))

\* C14: in Strategy C, when both normalized first names are non-empty, share
\* their first character and one of them is a single character, the first
\* name score is the maximum of their similarity and 85, hence at least 85,
\* and the row's combined score is computed from it.
C14_InitialEquivalence ==
    Categorized =>
        \A k \in Pool :
            InitialPair(k) =>
                /\ first_name_score(CandidateFirst, ExistingFirst(k))
                      = Max(fuzz_ratio(CandidateFirst, ExistingFirst(k)), 85)
                /\ first_name_score(CandidateFirst, ExistingFirst(k)) >= 85
                /\ FuzzyNameRow(k).kind = "score" =>
                      FuzzyNameRow(k).score
                         >= 8 * LastNameScore(k) + 6 * 85
                               + 6 * context_score(Incoming(1), existing_candidates[k])

\* 'J' 'Smith' against 'John' 'Smith': the first names are 40 similar, the
\* score used is 85 and Strategy C returns the row at 95.5
C14_Witness ==
    /\ pc = "categorized"
    /\ \E k \in Pool :
          /\ InitialPair(k)
          /\ CandidateFirst = "j"
          /\ ExistingFirst(k) = "john"
          /\ fuzz_ratio(CandidateFirst, ExistingFirst(k)) = 40
          /\ StrategyC(1) = Result(k, 1910)
          /\ found[1] = [matched |-> k, confidence |-> 1910, method |-> "fuzzy_name"]

\* the election years of the record and pool row k are equal, or one of them
\* is unspecified
YearCompatible(k) ==
    \/ Incoming(1).election_year = 0
    \/ existing_candidates[k].election_year = 0
    \/ Incoming(1).election_year = existing_candidates[k].election_year

\* C16: Strategy B skips every pool row whose election year is specified and
\* differs from the record's specified year, and so never returns one; an
\* unspecified year on either side is compatible with any year. Every
\* find_match result with method name_office or name_office_exact is
\* year-compatible with the record.
C16_YearFilter ==
    Categorized =>
        /\ \A k \in Pool : ~YearCompatible(k) => NameOfficeRow(k) = Skipped
        /\ StrategyB(1).found => YearCompatible(StrategyB(1).pos)
        /\ found[1].method \in {"name_office", "name_office_exact"}
              => YearCompatible(found[1].matched)

\* the first row has the record's name, office and party but another election
\* year; Strategy B returns the second row, whose year is unspecified
C16_Witness ==
    /\ pc = "categorized"
    /\ Len(existing_candidates) = 2
    /\ ~YearCompatible(1)
    /\ NameScore(1) = 100
    /\ OfficeScore(1) = 100
    /\ normalize_string(Incoming(1).party) = normalize_string(existing_candidates[1].party)
    /\ existing_candidates[2].election_year = 0
    /\ Incoming(1).election_year # 0
    /\ StrategyB(1).found
    /\ StrategyB(1).pos = 2

\* C17 as stated: party_match is 1.0 whenever either party is unspecified
\* (absent, or empty after normalization, e.g. whitespace only) or both are
\* equal after normalization, and 0.5 exactly when both are specified and
\* differ after normalization, for the incoming and the existing side alike.
C17_PartyMatchSymmetric ==
    Categorized =>
        \A k \in Pool :
            party_match(normalize_string(Incoming(1).party), existing_candidates[k].party)
               = IF PartiesDiffer(1, k) THEN 1 ELSE 2

\* the record's normalized full name, or office name, is the empty string
EmptyName == normalize_string(Incoming(1).full_name) = ""
EmptyOffice == normalize_string(Incoming(1).office_name) = ""

\* C18 as stated: an empty full name or office name of the incoming record is
\* never similar to an existing row's field, even when that field is empty or
\* absent too, and a row compared on an empty field never satisfies the
\* exact-match shortcut.
C18_EmptyFieldNeverMatches ==
    Categorized =>
        \A k \in Pool :
            /\ EmptyName => NameScore(k) = 0
            /\ EmptyOffice => OfficeScore(k) = 0
            /\ (EmptyName \/ EmptyOffice) => NameOfficeRow(k).kind # "return"

\* the normalized last names of the record and of pool row k
CandidateLast == normalize_string(Incoming(1).last_name)
ExistingLast(k) == normalize_string(existing_candidates[k].last_name)

\* C19: Strategy C returns no match for a record whose normalized last name is
\* empty; it skips, and so never returns, a pool row whose normalized last name
\* is empty or less than 85 similar to the record's; find_match reports no
\* such row with method fuzzy_name.
C19_FuzzyNameEligibility ==
    Categorized =>
        /\ CandidateLast = "" => ~StrategyC(1).found
        /\ \A k \in Pool :
              (ExistingLast(k) = "" \/ LastNameScore(k) < 85) =>
                  /\ FuzzyNameRow(k) = Skipped
                  /\ StrategyC(1).pos # k
                  /\ found[1].method = "fuzzy_name" => found[1].matched # k

\* a row with the record's first name, office level and district whose last
\* name is 83 similar is skipped, next to a row without a last name, and
\* Strategy C returns nothing
C19_Witness ==
    /\ pc = "categorized"
    /\ Len(existing_candidates) = 2
    /\ \E k \in Pool :
          /\ LastNameScore(k) = 83
          /\ CandidateFirst = ExistingFirst(k)
          /\ context_score(Incoming(1), existing_candidates[k]) = 100
    /\ \E k \in Pool : ExistingLast(k) = ""
    /\ ~StrategyC(1).found

(***************************************************************************)
(* run_maryland_update, run_delaware_update and run_nc_update from step 4  *)
(* on: the ingest run, staging, the fetch of the pool, categorization,     *)
(* inserts, updates with their match records, the review report, the       *)
(* finalization of the ingest run, and main's exit status.  The batch is   *)
(* the transformer's output: every record has a full name and the year of  *)
(* the election.                                                           *)
(***************************************************************************)
RunIncoming ==
    { Candidate("Jonathan Simmons", "Jonathan", "Simmons", "D", "state", "Mayor", "3", "d3", 2026),
      Candidate("Jonathan Simmons", "Johanna", "Simmonds", None, "state", "Mayors", "3", "d3", 2026),
      Candidate("J Smith", "J", "Smith", None, "state", "Mayor", "3", None, 2026) }

RunExisting ==
    { DatabaseCandidate(0, "JONATHAN SIMMONS", "Jonathan", "Simmons", "d ", "state", " Mayor", "d3", 2026),
      DatabaseCandidate(0, "Bo Hu", "Bo", "Hu", "R", "local", "Judge", None, 2026) }

\* the candidates table also holds rows of earlier elections
RunRegistry ==
    RunExisting \cup
    { DatabaseCandidate(0, "J Smith", "J", "Smith", None, "state", "Mayor", "d3", 2024) }

MaxRunPool == 2
MaxRunBatch == 3

\* steps 1 to 3: the batch is transformed and the client constructed
InitRun ==
    /\ \E rows \in SeqsUpTo(RunRegistry, MaxRunPool) : registry = WithIds(rows)
    /\ existing_candidates = <<>>
    /\ \E batch \in SeqsUpTo(RunIncoming, MaxRunBatch) :
          candidates = [k \in 1..Len(batch) |-> CandidateData(batch[k])]
    /\ results = EmptyResults
    /\ matches_found = 0
    /\ new_candidates = 0
    /\ calls = 0
    /\ run = 1
    /\ found = <<>>
    /\ prev_new = {}
    /\ effects = <<>>
    /\ pc = "start"
    /\ dry_run \in BOOLEAN
    /\ source_state \in {"MD", "DE"}
    /\ stats = NewStatistics
    /\ fetches = <<>>
    /\ exit_status = <<>>

\* what a step leaves alone besides the variables it names
batch_vars == <<candidates, results, matches_found, new_candidates, calls, run,
                found, prev_new, dry_run, source_state>>

\* a client method writes nothing in a dry run
Written_in_dry_run(dry, writes) == writes

\* "if DRY_RUN: ... return" at the head of every writing method of the client
Written(dry, writes) == IF dry THEN <<>> ELSE writes

\* a database call can raise; in a dry run none is made
Failures == IF dry_run THEN {FALSE} ELSE BOOLEAN

\* the handler of the run: the error is counted, finalize_ingest_run is tried
\* (an exception of it is swallowed) and the exception is raised again
Handler(finalized) ==
    /\ stats' = [stats EXCEPT !.errors = @ + 1]
    /\ effects' = effects \o Written(dry_run, IF finalized
                                               THEN <<Effect("finalize", 0, 0)>>
                                               ELSE <<>>)
    /\ pc' = "raised"

\* a step is left by an exception
Raise == \E finalized \in BOOLEAN : Handler(finalized)

\* step 4: create_ingest_run
CreateIngestRun ==
    /\ pc = "start"
    /\ \E fails \in Failures :
          IF fails THEN Raise
          ELSE /\ effects' = effects \o Written(dry_run, <<Effect("ingest_run", 0, 0)>>)
               /\ pc' = "run_created"
               /\ UNCHANGED stats
    /\ UNCHANGED <<registry, existing_candidates, fetches, exit_status>>
    /\ UNCHANGED batch_vars

\* step 5: stage_candidates
StageCandidates ==
    /\ pc = "run_created"
    /\ \E fails \in Failures :
          IF fails THEN Raise
          ELSE /\ effects' = effects \o
                     Written(dry_run, IF candidates = <<>> THEN <<>>
                                      ELSE <<Effect("stage", 0, Len(candidates))>>)
               /\ pc' = "staged"
               /\ UNCHANGED stats
    /\ UNCHANGED <<registry, existing_candidates, fetches, exit_status>>
    /\ UNCHANGED batch_vars

\* what a fetch of the pool gives: the rows, or an exception
Fetched(pool) == [raised |-> FALSE, pool |-> pool]
FetchRaised == [raised |-> TRUE, pool |-> <<>>]

\* SupabaseClient.get_existing_candidates: no handler
get_existing_maryland_candidates(table, dry, fails) ==
    IF dry THEN Fetched(<<>>)
    ELSE IF fails THEN FetchRaised
    ELSE Fetched(get_existing_candidates(table))

\* the error of the query is raised to the caller
get_existing_delaware_candidates_raising(table, dry, fails) ==
    IF dry THEN Fetched(<<>>)
    ELSE IF fails THEN FetchRaised
    ELSE Fetched(get_existing_candidates(table))

\* get_existing_delaware_candidates and get_existing_nc_candidates: the error
\* is logged and an empty list returned
get_existing_delaware_candidates(table, dry, fails) ==
    IF dry THEN Fetched(<<>>)
    ELSE IF fails THEN Fetched(<<>>)
    ELSE Fetched(get_existing_candidates(table))

\* step 6 of the state's orchestrator
fetch_existing(state, table, dry, fails) ==
    IF state = "MD" THEN get_existing_maryland_candidates(table, dry, fails)
    ELSE get_existing_delaware_candidates(table, dry, fails)

\* step 6: the pool is fetched
FetchExisting ==
    /\ pc = "staged"
    /\ \E fails \in Failures :
          /\ fetches' = Append(fetches, IF fails THEN "error" ELSE "rows")
          /\ IF fetch_existing(source_state, registry, dry_run, fails).raised
             THEN Raise /\ UNCHANGED existing_candidates
             ELSE /\ existing_candidates' =
                        fetch_existing(source_state, registry, dry_run, fails).pool
                  /\ pc' = "ready"
                  /\ UNCHANGED <<stats, effects>>
    /\ UNCHANGED <<registry, exit_status>>
    /\ UNCHANGED batch_vars

\* the records whose insert_candidate or update_candidate call returns
\* normally, in a dry run as well
Done(records, failed) == SelectSeq(records, LAMBDA i : i \notin failed)

\* insert_candidate returns an id in a dry run as well
Inserted_in_dry_run(new, failed, dry) == Done(new, failed)

\* the records for which insert_candidate returns an id: none in a dry run
Inserted(new, failed, dry) == IF dry THEN <<>> ELSE Done(new, failed)

RECURSIVE InsertEffects(_, _, _)
\* the loop of step 8 left at the first exception
InsertEffects_aborting(next_id, new, failed) ==
    IF new = <<>> THEN <<>>
    ELSE IF Head(new) \in failed
    THEN <<Effect("insert_error", Head(new), 0)>>
    ELSE <<Effect("insert", Head(new), next_id)>>
            \o InsertEffects(next_id + 1, Tail(new), failed)

\* step 8 for the records of the new bucket in turn: the row inserted for a
\* record gets the next id; an exception is counted and the loop goes on
InsertEffects(next_id, new, failed) ==
    IF new = <<>> THEN <<>>
    ELSE IF Head(new) \in failed
    THEN <<Effect("insert_error", Head(new), 0)>>
            \o InsertEffects(next_id, Tail(new), failed)
    ELSE <<Effect("insert", Head(new), next_id)>>
            \o InsertEffects(next_id + 1, Tail(new), failed)

\* stats.errors after step 8 or 9: one more for each exception
errors_after(errors, failed) == errors + Cardinality(failed)

\* step 8: insert_candidate for every record of the new bucket
ProcessNewCandidates ==
    /\ pc = "categorized"
    /\ \E failed \in SUBSET Range(results.new) :
          /\ dry_run => failed = {}
          /\ registry' = insert_all(registry, candidates,
                                    Inserted(results.new, failed, dry_run))
          /\ effects' = effects \o
                Written(dry_run, InsertEffects(Len(registry) + 1, results.new, failed))
          /\ stats' = [stats EXCEPT
                          !.new_candidates = @ + Len(Inserted(results.new, failed, dry_run)),
                          !.errors = errors_after(@, failed)]
    /\ pc' = "inserted"
    /\ UNCHANGED <<existing_candidates, fetches, exit_status>>
    /\ UNCHANGED batch_vars

\* update_candidate: every valid field of the incoming record overwrites the
\* row's column
UpdatedRow(row, candidate) ==
    DatabaseCandidate(row.id, candidate.full_name, candidate.first_name,
                      candidate.last_name, candidate.party, candidate.office_level,
                      candidate.office_name, candidate.ocd_division_id,
                      candidate.election_year)

\* the rows with the given id are updated
update_candidate(table, id, candidate) ==
    [k \in 1..Len(table) |->
        IF table[k].id = id THEN UpdatedRow(table[k], candidate) ELSE table[k]]

RECURSIVE update_all(_, _, _)
update_all(table, batch, update) ==
    IF update = <<>> THEN table
    ELSE update_all(update_candidate(table, batch[Head(update)].match_info.candidate_id,
                                     batch[Head(update)].candidate),
                    batch, Tail(update))

\* the update step also takes the records that need review
to_update_with_review(categorized) == categorized.update \o categorized.review

\* the records step 9 goes through
to_update(categorized) == categorized.update

\* step 9 for one record: update_candidate, then (Maryland) record_match;
\* either can raise
UpdateEffect(state, i, id, failed_update, failed_match) ==
    IF i \in failed_update THEN <<Effect("update_error", i, id)>>
    ELSE IF state # "MD" THEN <<Effect("update", i, id)>>
    ELSE IF i \in failed_match
    THEN <<Effect("update", i, id), Effect("match_error", i, id)>>
    ELSE <<Effect("update", i, id), Effect("match", i, id)>>

RECURSIVE UpdateEffects(_, _, _, _, _)
UpdateEffects(state, batch, update, failed_update, failed_match) ==
    IF update = <<>> THEN <<>>
    ELSE UpdateEffect(state, Head(update), batch[Head(update)].match_info.candidate_id,
                      failed_update, failed_match)
            \o UpdateEffects(state, batch, Tail(update), failed_update, failed_match)

\* step 9: update_candidate and record_match for every record of the update
\* bucket; update_candidate returns True in a dry run
ProcessUpdates ==
    /\ pc = "inserted"
    /\ \E failed_update \in SUBSET Range(to_update(results)) :
       \E failed_match \in SUBSET (Range(to_update(results)) \ failed_update) :
          /\ dry_run => failed_update = {}
          /\ (dry_run \/ source_state # "MD") => failed_match = {}
          /\ registry' = IF dry_run THEN registry
                         ELSE update_all(registry, candidates,
                                         Done(to_update(results), failed_update))
          /\ effects' = effects \o
                Written(dry_run, UpdateEffects(source_state, candidates, to_update(results),
                                               failed_update, failed_match))
          /\ stats' = [stats EXCEPT
                          !.updated_candidates =
                              @ + Len(Done(to_update(results), failed_update)),
                          !.errors = errors_after(@, failed_update \cup failed_match)]
    /\ pc' = "updated"
    /\ UNCHANGED <<existing_candidates, fetches, exit_status>>
    /\ UNCHANGED batch_vars

\* step 10 logs the first ten records that need review
ReviewLog(batch, review) ==
    [k \in 1..Min(Len(review), 10) |->
        Effect("review_logged", review[k], batch[review[k]].match_info.candidate_id)]

\* steps 10 and 11: the review report, then finalize_ingest_run
FinalizeRun ==
    /\ pc = "updated"
    /\ \E fails \in Failures :
          IF fails
          THEN \E finalized \in BOOLEAN :
                  /\ stats' = [stats EXCEPT !.errors = @ + 1]
                  /\ effects' = (effects \o ReviewLog(candidates, results.review))
                                   \o (IF finalized THEN <<Effect("finalize", 0, 0)>>
                                       ELSE <<>>)
                  /\ pc' = "raised"
          ELSE /\ effects' = (effects \o ReviewLog(candidates, results.review))
                                \o Written(dry_run, <<Effect("finalize", 0, 0)>>)
               /\ pc' = "done"
               /\ UNCHANGED stats
    /\ UNCHANGED <<registry, existing_candidates, fetches, exit_status>>
    /\ UNCHANGED batch_vars

\* main: 1 when the run raised or counted an error, else 0
status(raised, errors) == IF raised \/ errors > 0 THEN 1 ELSE 0

\* main exits after the run returned its statistics or raised
Exit ==
    /\ pc \in {"done", "raised"}
    /\ exit_status' = <<status(pc = "raised", stats.errors)>>
    /\ pc' = "exited"
    /\ UNCHANGED <<registry, existing_candidates, effects, stats, fetches>>
    /\ UNCHANGED batch_vars

\* KeyboardInterrupt is no Exception: the run's handlers do not see it, and
\* main exits with 130
Cancel ==
    /\ pc # "exited"
    /\ exit_status' = <<130>>
    /\ pc' = "exited"
    /\ UNCHANGED <<registry, existing_candidates, effects, stats, fetches>>
    /\ UNCHANGED batch_vars

NextStep ==
    \/ CreateIngestRun
    \/ StageCandidates
    \/ FetchExisting
    \/ DeduplicateCandidates
    \/ ProcessNewCandidates
    \/ ProcessUpdates
    \/ FinalizeRun
    \/ Exit
    \/ Cancel

SpecRun == InitRun /\ [][NextStep]_vars

\* the effects of the run that concern batch record i
EffectsOf(i) == SelectSeq(effects, LAMBDA e : e.record = i)

\* the operations among the effects of the run that concern batch record i
OpsOf(i) == [n \in 1..Len(EffectsOf(i)) |-> EffectsOf(i)[n].op]

\* pool row k was changed in the registry by the run
RowChanged(k) == registry[existing_candidates[k].id] # existing_candidates[k]

\* the operations a record of the update bucket can have caused
UpdateOps ==
    { <<"update", "match">>, <<"update">>, <<"update_error">>, <<"update", "match_error">> }

\* C20: in a run, a row is inserted only for a record of the new bucket, and
\* an existing row is updated and a match recorded only for a record of the
\* update bucket, whose confidence is at least 95; a record of the review
\* bucket causes no insert, no update and no recorded match, only a line of
\* the review report. When the run is done every new record has been inserted
\* once and every update record has updated the row it was matched to.
C20_OnlyUpdateAndNewPersist ==
    /\ \A n \in 1..Len(effects) :
          /\ effects[n].op \in {"insert", "insert_error"} =>
                effects[n].record \in Range(results.new)
          /\ effects[n].op = "insert" =>
                /\ effects[n].id \in (Len(existing_candidates) + 1)..Len(registry)
                /\ registry[effects[n].id]
                      = InsertedRow(effects[n].id, Incoming(effects[n].record))
          /\ effects[n].op \in {"update", "match", "update_error", "match_error"} =>
                /\ effects[n].record \in Range(results.update)
                /\ found[effects[n].record].confidence >= HIGH_CONFIDENCE_THRESHOLD * Scale
                /\ effects[n].id
                      = existing_candidates[found[effects[n].record].matched].id
    /\ \A i \in Range(results.review) :
          \A n \in 1..Len(OpsOf(i)) : OpsOf(i)[n] = "review_logged"
    /\ \A k \in Pool :
          RowChanged(k) => \E i \in Range(results.update) : found[i].matched = k
    /\ (pc = "done" /\ ~dry_run) =>
          /\ \A i \in Range(results.new) : OpsOf(i) \in {<<"insert">>, <<"insert_error">>}
          /\ \A i \in Range(results.update) : OpsOf(i) \in UpdateOps

\* a finished run with one record in each bucket: the review record and the
\* update record were matched to the same row, which the update changed
C20_Witness ==
    /\ pc = "done"
    /\ stats = [new_candidates |-> 1, updated_candidates |-> 1, errors |-> 0]
    /\ OpsOf(results.new[1]) = <<"insert">>
    /\ OpsOf(results.update[1]) = <<"update", "match">>
    /\ Len(results.new) = 1
    /\ Len(results.update) = 1
    /\ Len(results.review) = 1
    /\ found[results.review[1]].matched = found[results.update[1]].matched
    /\ RowChanged(found[results.update[1]].matched)
    /\ found[results.review[1]].confidence < HIGH_CONFIDENCE_THRESHOLD * Scale
    /\ OpsOf(results.review[1]) = <<"review_logged">>


\* method and confidence of the annotation of batch record i
MethodOf(i) == candidates[i].match_info.method
ConfidenceOf(i) == candidates[i].match_info.confidence

\* C23: in a categorized batch every record in update has method
\* name_office_exact with confidence exactly 100, or method fuzzy_name with
\* confidence >= 95; every record in review has method name_office with
\* confidence in [85, 90], or method fuzzy_name with confidence in [85, 95);
\* method external_id never appears, find_match's result included.
C23_BucketMethodConsistency ==
    Categorized =>
        /\ \A i \in Range(results.update) :
              \/ MethodOf(i) = "name_office_exact"
                 /\ ConfidenceOf(i) = EXACT_MATCH_THRESHOLD * Scale
              \/ MethodOf(i) = "fuzzy_name"
                 /\ ConfidenceOf(i) >= HIGH_CONFIDENCE_THRESHOLD * Scale
        /\ \A i \in Range(results.review) :
              \/ MethodOf(i) = "name_office"
                 /\ ConfidenceOf(i) >= REVIEW_THRESHOLD * Scale
                 /\ ConfidenceOf(i) <= 90 * Scale
              \/ MethodOf(i) = "fuzzy_name"
                 /\ ConfidenceOf(i) >= REVIEW_THRESHOLD * Scale
                 /\ ConfidenceOf(i) < HIGH_CONFIDENCE_THRESHOLD * Scale
        /\ \A i \in Batch :
              /\ MethodOf(i) # "external_id"
              /\ found[i].method # "external_id"
              /\ found[i].matched # 0 => MethodOf(i) = found[i].method

\* a record accepted through the exact-match shortcut is in update
C23_Witness ==
    /\ pc = "categorized"
    /\ results.update = <<1>>
    /\ MethodOf(1) = "name_office_exact"
    /\ ~StrategyC(1).found


\* values the fields Strategy C does not read are changed to
OtherParties == { None, " ", "R" }
OtherYears == { 0, 2024, ELECTION_YEAR }
OtherOffices == { "", "Judge" }
OtherNames == { "", "Bo Hu" }

\* a record or row with its party, election year, office name and full name changed
Changed(record, party, year, office, full) ==
    [record EXCEPT !.party = party, !.election_year = year,
                   !.office_name = office, !.full_name = full]

\* the pool with row k changed so
ChangedPool(k, party, year, office, full) ==
    [existing_candidates EXCEPT ![k] = Changed(@, party, year, office, full)]

\* C24: Strategy C's result for a record and a pool depends only on first
\* names, last names, office levels, the incoming district number and the
\* existing ocd_division_id: changing the party, election year, office name
\* and full name of the record or of any pool row leaves it unchanged.
C24_FuzzyNameIgnoresYearAndParty ==
    Categorized =>
        \A party \in OtherParties, year \in OtherYears,
           office \in OtherOffices, full \in OtherNames :
            /\ match_by_fuzzy_name(Changed(Incoming(1), party, year, office, full),
                                   existing_candidates) = StrategyC(1)
            /\ \A k \in Pool :
                  match_by_fuzzy_name(Incoming(1),
                                      ChangedPool(k, party, year, office, full))
                      = StrategyC(1)

\* find_match returns with method fuzzy_name and confidence 100 a row of
\* election year 2024 for a record of 2026, which Strategy B skipped
C24_Witness ==
    /\ pc = "categorized"
    /\ found[1].method = "fuzzy_name"
    /\ found[1].confidence = 100 * Scale
    /\ Incoming(1).election_year = ELECTION_YEAR
    /\ existing_candidates[found[1].matched].election_year = 2024
    /\ NameOfficeRow(found[1].matched) = Skipped
    /\ results.update = <<1>>


\* the first name score and the context score of the record and pool row k
FirstScore(k) == first_name_score(CandidateFirst, ExistingFirst(k))
ContextScore(k) == context_score(Incoming(1), existing_candidates[k])

\* for all similarity scores and all context scores: without a first name
\* score or without context the combined score of Strategy C is at most 70;
\* with context 50 it reaches 85 only when both name scores are 100; with a
\* first name score of 85 it reaches 85 only when the context is 100
FuzzyScoreNeedsContext ==
    \A last_name_score \in Scores : \A first_score \in Scores : \A context \in {0, 50, 100} :
        /\ (first_score = 0 \/ context = 0) =>
              fuzzy_name_score(last_name_score, first_score, context) <= 70 * Scale
        /\ (context = 50
            /\ fuzzy_name_score(last_name_score, first_score, context)
                  >= REVIEW_THRESHOLD * Scale) =>
              last_name_score = 100 /\ first_score = 100
        /\ (first_score = 85
            /\ fuzzy_name_score(last_name_score, first_score, context)
                  >= REVIEW_THRESHOLD * Scale) =>
              context = 100

\* C25: Strategy C returns a pool row only if both normalized first names are
\* non-empty and the context score is at least 50; a row with an empty first
\* name on either side or with context 0 scores at most 70.  A row returned
\* with context 50 has last and first name scores 100, so a row returned on
\* the strength of the single-initial rule has context 100.
C25_FuzzyNameNeedsContext ==
    Categorized =>
        /\ FuzzyScoreNeedsContext
        /\ \A k \in Pool :
              /\ (CandidateFirst = "" \/ ExistingFirst(k) = "" \/ ContextScore(k) = 0) =>
                    /\ FuzzyNameRow(k).kind = "score" =>
                          FuzzyNameRow(k).score <= 70 * Scale
                    /\ StrategyC(1).pos # k
              /\ (StrategyC(1).pos = k /\ ContextScore(k) = 50) =>
                    LastNameScore(k) = 100 /\ FirstScore(k) = 100
              /\ (StrategyC(1).pos = k /\ InitialPair(k)
                  /\ fuzz_ratio(CandidateFirst, ExistingFirst(k)) < 85) =>
                    ContextScore(k) = 100

\* a row with the record's names in another office level, the record having
\* no district, scores exactly 70 and is not returned; the row returned has
\* context 50 and both name scores 100, at exactly 85
C25_Witness ==
    /\ pc = "categorized"
    /\ \E k \in Pool :
          /\ ContextScore(k) = 0
          /\ FuzzyNameRow(k) = Scored(70 * Scale)
    /\ \E k \in Pool :
          /\ ContextScore(k) = 50
          /\ StrategyC(1) = Result(k, 85 * Scale)
    /\ found[1].method = "fuzzy_name"


\* the pool rows that satisfy Strategy B's exact-match shortcut for the record
ExactRows == { k \in Pool : NameOfficeRow(k).kind = "return" }

\* k is the first pool row with the highest combined score among the rows
\* the loop of a strategy scores; rows[j] is what its body does with row j
FirstBest(rows, k) ==
    /\ rows[k].kind = "score"
    /\ \A j \in Pool : rows[j].kind = "score" =>
          \/ rows[j].score < rows[k].score
          \/ rows[j].score = rows[k].score /\ k <= j

\* what the loop bodies of the two strategies do with each pool row
NameOfficeRows == [k \in Pool |-> NameOfficeRow(k)]
FuzzyNameRows == [k \in Pool |-> FuzzyNameRow(k)]

\* C26: among the pool rows with the same highest combined score a strategy
\* returns the one that comes first in pool order, both in Strategy B (when
\* no row is exact) and in Strategy C; when several rows satisfy the
\* exact-match shortcut, Strategy B returns the first of them in pool order.
C26_PoolOrderTieBreak ==
    Categorized =>
        /\ ExactRows # {} =>
              /\ StrategyB(1).found
              /\ StrategyB(1).pos \in ExactRows
              /\ \A k \in ExactRows : StrategyB(1).pos <= k
        /\ (ExactRows = {} /\ StrategyB(1).found) =>
              FirstBest(NameOfficeRows, StrategyB(1).pos)
        /\ StrategyC(1).found => FirstBest(FuzzyNameRows, StrategyC(1).pos)

\* two pool rows with the same scores, none exact: Strategy B returns the first
\* of them at 87.3 and Strategy C the first of them at 100
C26_Witness ==
    /\ pc = "categorized"
    /\ Len(existing_candidates) = 2
    /\ ExactRows = {}
    /\ NameOfficeRow(1).kind = "score"
    /\ NameOfficeRow(2) = NameOfficeRow(1)
    /\ StrategyB(1) = Result(1, 1746)
    /\ FuzzyNameRow(1).kind = "score"
    /\ FuzzyNameRow(2) = FuzzyNameRow(1)
    /\ StrategyC(1) = Result(1, 100 * Scale)
    /\ found[1].matched = 1

(***************************************************************************)
(* deduplicate_candidates called on any list of dictionaries: records      *)
(* without the full_name key, or with the value None, among valid ones.    *)
(***************************************************************************)
\* dictionaries that are no NormalizedCandidate: full_name is required there
InvalidRecords ==
    { Candidate(Missing, "Jonathan", "Simmons", "D", "state", "Mayor", "3", "d3", 2026),
      Candidate(None, "Jonathan", "Simmons", "D", "state", "Mayor", "3", "d3", 2026) }

InitBatch ==
    /\ \E pool \in SeqsUpTo(RunExisting, MaxPool) :
          /\ registry = WithIds(pool)
          /\ existing_candidates = WithIds(pool)
    /\ \E batch \in SeqsUpTo(RunIncoming \cup InvalidRecords, MaxBatch) :
          candidates = [k \in 1..Len(batch) |-> CandidateData(batch[k])]
    /\ results = EmptyResults
    /\ matches_found = 0
    /\ new_candidates = 0
    /\ calls = 0
    /\ run = 1
    /\ found = <<>>
    /\ prev_new = {}
    /\ effects = <<>>
    /\ pc = "ready"
    /\ Standalone

NextBatch ==
    \/ DeduplicateCandidates
    \/ ProcessCandidatesAgain

SpecBatch == InitBatch /\ [][NextBatch]_vars

\* process_candidates has been called on the batch
CategorizationEnded == pc \in {"categorized", "failed"}

\* the record has no full_name: the key is missing or its value is None
NoFullName(i) == Incoming(i).full_name \in {Missing, None}

\* C15 as stated: a record without full_name is rejected alone or bucketed
\* new, never matched, and every other record of the batch is categorized.
C15_InvalidRecordIsolated ==
    CategorizationEnded =>
        \A i \in Batch :
            IF NoFullName(i)
            THEN i \notin Range(results.update) \cup Range(results.review)
            ELSE i \in Range(results.new) \cup Range(results.update)
                          \cup Range(results.review)

(***************************************************************************)
(* One CandidateMatcher used for several process_candidates calls, on the  *)
(* same batch again or on another batch.                                   *)
(***************************************************************************)
MaxCallPool == 1

InitCalls ==
    /\ \E pool \in SeqsUpTo(RunExisting, MaxCallPool) :
          /\ registry = WithIds(pool)
          /\ existing_candidates = WithIds(pool)
    /\ \E batch \in SeqsUpTo(RunIncoming, MaxBatch) :
          candidates = [k \in 1..Len(batch) |-> CandidateData(batch[k])]
    /\ results = EmptyResults
    /\ matches_found = 0
    /\ new_candidates = 0
    /\ calls = 0
    /\ run = 1
    /\ found = <<>>
    /\ prev_new = {}
    /\ effects = <<>>
    /\ pc = "ready"
    /\ Standalone

\* process_candidates on the same matcher with another batch
ProcessNextBatch ==
    /\ pc = "categorized"
    /\ calls < MaxCalls
    /\ \E batch \in SeqsUpTo(RunIncoming, MaxBatch) :
          Processed(process_candidates([k \in 1..Len(batch) |-> CandidateData(batch[k])],
                                       existing_candidates, matches_found, new_candidates))

NextCalls ==
    \/ DeduplicateCandidates
    \/ ProcessCandidatesAgain
    \/ ProcessNextBatch

SpecCalls == InitCalls /\ [][NextCalls]_vars

\* C27: the counters of a new matcher are 0, and every process_candidates
\* call adds to matches_found the number of records it places in update or
\* review, to new_candidates the number it places in new, and to their sum
\* the number of records it processes; so after any sequence of calls the
\* counters equal the totals over the calls.  No other step changes them.
C27_MatcherCounters ==
    /\ matches_found = 0 /\ new_candidates = 0
    /\ [][/\ ProcessStep =>
                /\ matches_found' - matches_found
                      = Len(results'.update) + Len(results'.review)
                /\ new_candidates' - new_candidates = Len(results'.new)
                /\ (matches_found' + new_candidates') - (matches_found + new_candidates)
                      = Len(candidates')
          /\ ~ProcessStep => UNCHANGED <<matches_found, new_candidates>>]_vars

\* after a batch of two with a match and a new record, a second batch put one
\* record into update and one into review: the counters are 3 and 1
C27_Witness ==
    /\ calls = 2
    /\ Len(results.update) = 1
    /\ Len(results.review) = 1
    /\ Len(results.new) = 0
    /\ matches_found = 3
    /\ new_candidates = 1


\* the effects that write to the candidate registry or record a match
RegistryOps ==
    { "insert", "insert_error", "update", "update_error", "match", "match_error" }

\* the steps of a run before and after the fetch of the pool
BeforeFetch == pc \in {"start", "run_created", "staged"}
AfterFetch == pc \in {"ready", "categorized", "inserted", "updated", "done"}

\* C21: in a run the pool is fetched exactly once, before categorization; no
\* insert into or update of the registry is made or tried before the
\* categorization of the whole batch has returned, so the registry rows of
\* the pool are unchanged until then and every record of the batch is matched
\* against the same pool.
C21_PoolFetchedOnce ==
    /\ Len(fetches) <= 1
    /\ BeforeFetch => fetches = <<>> /\ calls = 0
    /\ AfterFetch => Len(fetches) = 1
    /\ calls = 1 => Len(fetches) = 1
    /\ (calls = 0 \/ pc = "categorized") =>
          /\ \A n \in 1..Len(effects) : effects[n].op \notin RegistryOps
          /\ \A k \in Pool : ~RowChanged(k)
          /\ stats.new_candidates = 0 /\ stats.updated_candidates = 0
    /\ calls = 1 =>
          \A i \in Batch :
              found[i] = find_match(Incoming(i), existing_candidates)

\* a categorized batch of two records matched to the same fetched row, in a
\* registry that holds a row of an earlier election too; the run has written
\* the ingest run and the staging rows only
C21_Witness ==
    /\ pc = "categorized"
    /\ fetches = <<"rows">>
    /\ Len(registry) = 2
    /\ Len(existing_candidates) = 1
    /\ Len(candidates) = 2
    /\ found[1].matched = 1
    /\ found[2].matched = 1
    /\ existing_candidates[1].id = 2
    /\ effects = <<Effect("ingest_run", 0, 0), Effect("stage", 0, 2)>>


\* the pool is fetched and the orchestrator has not acted on a categorization:
\* deduplicate_candidates is running or has just returned
InCategorization == pc \in {"ready", "categorized"}

\* the run was cancelled while deduplicate_candidates ran
AbandonedInCategorization ==
    /\ pc = "exited"
    /\ exit_status = <<130>>
    /\ Len(fetches) = 1
    /\ calls = 0
    /\ stats.errors = 0

\* what steps 4 and 5 have written
StagedEffects ==
    <<Effect("ingest_run", 0, 0)>>
       \o (IF candidates = <<>> THEN <<>> ELSE <<Effect("stage", 0, Len(candidates))>>)

FetchFailed == source_state = "DE" /\ fetches = <<"error">>

\* every record of the batch, in batch order
AllRecords == [i \in Batch |-> i]

\* C28: in a Delaware or North Carolina run a failure of the fetch of the
\* pool is not propagated: the step ends with an empty pool and no error
\* counted, and the run goes on; categorization then puts every record of
\* the batch into new, and step 8 calls insert_candidate once for every
\* record: a row is inserted for it unless that call raises.
C28_FetchFailureGivesEmptyPool ==
    /\ [](FetchFailed =>
            /\ existing_candidates = <<>>
            /\ pc = "ready" => stats = NewStatistics
            /\ calls = 1 =>
                  /\ results = [EmptyResults EXCEPT !.new = AllRecords]
                  /\ \A i \in Batch : found[i] = NoMatch
            /\ pc \in {"inserted", "updated", "done"} =>
                  /\ \A i \in Batch : OpsOf(i) \in {<<"insert">>, <<"insert_error">>}
                  /\ stats.new_candidates + stats.errors = Len(candidates)
                  /\ stats.updated_candidates = 0
                  /\ \A n \in 1..Len(effects) :
                        effects[n].op = "insert" =>
                            registry[effects[n].id]
                               = InsertedRow(effects[n].id, Incoming(effects[n].record)))
    /\ [][(source_state = "DE" /\ fetches' = <<"error">> /\ fetches = <<>>) =>
             pc' = "ready"]_vars

\* a Delaware run whose fetch failed although the table holds a row of the
\* election year: both records of the batch were inserted and the run is done
C28_Witness ==
    /\ FetchFailed
    /\ pc = "done"
    /\ Len(candidates) = 2
    /\ \E k \in 1..Len(registry) : registry[k].full_name = "JONATHAN SIMMONS"
    /\ Incoming(1).full_name = "Jonathan Simmons"
    /\ OpsOf(1) = <<"insert">>
    /\ OpsOf(2) = <<"insert">>
    /\ stats = [new_candidates |-> 2, updated_candidates |-> 0, errors |-> 0]


\* the exceptions caught by the handlers of steps 8 and 9
ErrorOps == { "insert_error", "update_error", "match_error" }
CaughtErrors == Len(SelectSeq(effects, LAMBDA e : e.op \in ErrorOps))

\* an exception while one record is inserted or updated is counted once and
\* the loops go on: after step 8 every record of new has had its
\* insert_candidate call, after step 9 every record of update its
\* update_candidate call, and the run that returns has finalized the ingest run
FailuresIsolated ==
    /\ (pc \in {"inserted", "updated", "done"} /\ ~dry_run) =>
          \A i \in Range(results.new) : OpsOf(i) \in {<<"insert">>, <<"insert_error">>}
    /\ (pc \in {"updated", "done"} /\ ~dry_run) =>
          \A i \in Range(results.update) : OpsOf(i) \in UpdateOps
    /\ pc \in {"inserted", "updated", "done"} => stats.errors = CaughtErrors
    /\ (pc = "done" /\ ~dry_run) => effects[Len(effects)].op = "finalize"

RegistryAsFound ==
    /\ Len(registry) <= MaxRunPool
    /\ \A k \in 1..Len(registry) :
          /\ registry[k].id = k
          /\ [registry[k] EXCEPT !.id = 0] \in RunRegistry

\* C30: in a dry run no database write is issued (no ingest-run, staging,
\* insert, update, match or finalize write) and the candidates table stays as
\* it was; the pool returned is empty, so every record of the batch is
\* categorized new, update and review are empty, and stats.new_candidates and
\* stats.updated_candidates are 0 to the end of the run.
C30_DryRunWritesNothing ==
    dry_run =>
        /\ effects = <<>>
        /\ RegistryAsFound
        /\ existing_candidates = <<>>
        /\ calls = 1 => results = [EmptyResults EXCEPT !.new = AllRecords]
        /\ stats = NewStatistics
        /\ pc = "exited" => exit_status \in {<<0>>, <<130>>}

\* a dry run that went through all steps and exited with 0: the table holds
\* this election's row for the first record, yet both records are new, and
\* nothing was written or counted
C30_Witness ==
    /\ dry_run
    /\ pc = "exited"
    /\ exit_status = <<0>>
    /\ fetches = <<"rows">>
    /\ Len(candidates) = 2
    /\ results.new = <<1, 2>>
    /\ \E k \in 1..Len(registry) : registry[k].full_name = "JONATHAN SIMMONS"
    /\ Incoming(1).full_name = "Jonathan Simmons"
    /\ effects = <<>>
    /\ stats = NewStatistics













=============================================================================
